---- MODULE Spec2Model ----
(***************************************************************************)
(* Coach Marketplace API (src/main.py): the document store's three         *)
(* collections and the request handlers that read and write them.          *)
(*                                                                         *)
(* average_rating is kept in hundredths (4.33 is 433): round(avg, 2) has   *)
(* exactly two decimals, so nothing is lost.                               *)
(***************************************************************************)
EXTENDS Integers, Sequences, FiniteSets, TLC

VARIABLES
    coach,      \* db["coach"]: the coach documents, in insertion order
    review,     \* db["review"]: the review documents, in insertion order
    booking,    \* db["booking"]: the booking documents, in insertion order
    inflight,   \* create_review requests between two of their store calls
    posted,     \* history: the inputs of the create_review requests answered with an id
    resp        \* the last response sent to a client

vars == <<coach, review, booking, inflight, posted, resp>>

----------------------------------------------------------------------------
(* Bounds of the model *)

MaxCoaches == 2
MaxReviews == 3
MaxLedger == 3
MaxBookings == 1
MaxPosted == 2
MaxInflight == 2
MaxExtra == 2

(* Program constants *)

CollectionsShown == 10
ErrorChars == 80
AdultAge == 18

(* None, where the other values are numbers (an absent created_at or     *)
(* athlete_age); an absent document is the empty sequence.                 *)
None == 0 - 1

Names == {"ann"}
Times == {0, 1}
Ratings == {1, 2}
Ages == {None, AdultAge - 1, AdultAge}
UserTypes == {"adult", "parent"}

----------------------------------------------------------------------------
(* Identifiers.  A store identifier (bson ObjectId) is modelled as a       *)
(* number; the strings a client can send are <<spelling, n>>: the 24 hex   *)
(* digits of identifier n written in lower case or in upper case, or a     *)
(* string that is no 24-digit hex string at all.  ObjectId(s) accepts the  *)
(* hex digits in either case, str(oid) writes them in lower case, so two   *)
(* different strings can name the same identifier.                         *)

Junk == <<"junk", 0>>

Str(oid) == <<"lower", oid>>

IsValidOid(s) == s[1] \in {"lower", "upper"}

ObjectId(s) == s[2]

(* Identifiers are unique over the whole store: each collection draws     *)
(* from a range of its own.  AbsentOid is a well-formed identifier that no *)
(* document ever gets.                                                     *)
AbsentOid == MaxCoaches + 1
NewCoachOid == Len(coach) + 1
NewReviewOid == AbsentOid + Len(review) + 1
NewBookingOid == AbsentOid + MaxReviews + MaxLedger + Len(booking) + 1

(* The coach_id / path strings a client sends: either spelling of an      *)
(* existing coach's id, a well-formed id of no document, a malformed one.  *)
IdInputs ==
    {<<k, coach[i]._id>> : k \in {"lower", "upper"}, i \in 1..Len(coach)}
        \cup {Str(AbsentOid), Junk}

----------------------------------------------------------------------------
(* Request bodies (schemas.py is not part of the sources: the fields are   *)
(* those of the data model).                                               *)

CoachInputs == [full_name : Names, average_rating : {0}, review_count : {0}]

ReviewInputs(ids, times) == [coach_id : ids, rating : Ratings, created_at : times]

BookingInputs(ids, times) ==
    [coach_id : ids, user_type : UserTypes, athlete_age : Ages, created_at : times]

----------------------------------------------------------------------------
(* The document store *)

(* insert-document(collection, data) -> id *)
create_document(collection, data, oid) == Append(collection, [_id |-> oid] @@ data)

(* collection.find_one({"_id": oid}): <<the first match>>, or <<>> for None *)
find_one(collection, oid) ==
    LET hits == SelectSeq(collection, LAMBDA d : d._id = oid)
    IN  IF hits = <<>> THEN <<>> ELSE <<Head(hits)>>

(* As find_by_coach, the filter left out: find({}) *)
find_all(collection, cid) == collection

(* collection.find({"coach_id": cid}) *)
find_by_coach(collection, cid) == SelectSeq(collection, LAMBDA d : d.coach_id = cid)

(* As InsertDesc, the direction flipped: sort("created_at", 1) *)
RECURSIVE InsertAsc(_, _)
InsertAsc(d, sorted) ==
    IF sorted = <<>> THEN <<d>>
    ELSE IF d.created_at < Head(sorted).created_at THEN <<d>> \o sorted
    ELSE <<Head(sorted)>> \o InsertAsc(d, Tail(sorted))

(* cursor.sort("created_at", -1): insertion sort, newest first *)
RECURSIVE InsertDesc(_, _)
InsertDesc(d, sorted) ==
    IF sorted = <<>> THEN <<d>>
    ELSE IF d.created_at > Head(sorted).created_at THEN <<d>> \o sorted
    ELSE <<Head(sorted)>> \o InsertDesc(d, Tail(sorted))

RECURSIVE sort_desc(_)
sort_desc(docs) ==
    IF docs = <<>> THEN <<>> ELSE InsertDesc(Head(docs), sort_desc(Tail(docs)))

(* As update_one, the filter left out: update_many({}, ...) *)
update_every(collection, oid, fields) ==
    [i \in 1..Len(collection) |-> fields @@ collection[i]]

(* coach.update_one({"_id": oid}, {"$set": fields}): no upsert *)
update_one(collection, oid, fields) ==
    [i \in 1..Len(collection) |->
        IF collection[i]._id = oid
           /\ \A j \in 1..(i - 1) : collection[j]._id # oid
        THEN fields @@ collection[i]
        ELSE collection[i]]

(* As with_id, the pop left out *)
with_id_kept(doc) ==
    [f \in DOMAIN doc \cup {"id"} |-> IF f = "id" THEN Str(doc._id) ELSE doc[f]]

(* doc["id"] = str(doc["_id"]); doc.pop("_id", None) *)
with_id(doc) ==
    [f \in (DOMAIN doc \ {"_id"}) \cup {"id"} |->
        IF f = "id" THEN Str(doc._id) ELSE doc[f]]

----------------------------------------------------------------------------
(* Review aggregates *)

RECURSIVE rating_sum(_)
rating_sum(reviews) ==
    IF reviews = <<>> THEN 0 ELSE Head(reviews).rating + rating_sum(Tail(reviews))

(* As round2, the digits after the second cut off *)
round2_truncating(total, n) == (100 * total) \div n

(* round(total / n, 2) in hundredths: to the nearest, a tie to the even   *)
(* neighbour.                                                              *)
round2(total, n) ==
    LET q == (100 * total) \div n
        r == (100 * total) % n
    IN  IF 2 * r < n THEN q
        ELSE IF 2 * r > n THEN q + 1
        ELSE IF q % 2 = 0 THEN q ELSE q + 1

aggregates(reviews) ==
    [average_rating |-> round2(rating_sum(reviews), Len(reviews)),
     review_count |-> Len(reviews)]

(* The store calls a fault can hit; "" is a store that answers *)
StoreFaults == {"", "insert", "find", "update"}

(* The try block of create_review, given the review collection it reads:  *)
(* the exception it ends with ("" for none) and the coach collection it    *)
(* leaves.                                                                 *)
aggregate_try(coaches, reviews, cid, fault) ==
    IF ~IsValidOid(cid) THEN [raised |-> "InvalidId", coach |-> coaches]
    ELSE IF fault = "find" THEN [raised |-> "PyMongoError", coach |-> coaches]
    ELSE LET found == find_by_coach(reviews, cid)
         IN  IF found = <<>> THEN [raised |-> "", coach |-> coaches]
             ELSE IF fault = "update" THEN [raised |-> "PyMongoError", coach |-> coaches]
             ELSE [raised |-> "",
                   coach |-> update_one(coaches, ObjectId(cid), aggregates(found))]

(* As after_aggregate, the exception let through *)
after_aggregate_raising(raised) == IF raised = "" THEN 200 ELSE 500

(* except Exception: pass; return {"id": review_id} *)
after_aggregate(raised) == 200

----------------------------------------------------------------------------
(* Handlers *)

(* data.setdefault("created_at", datetime.utcnow()) *)
stamped(in, clock) ==
    [in EXCEPT !.created_at = IF in.created_at = None THEN clock ELSE in.created_at]

(* POST /reviews: the status, and the collections the handler leaves *)
create_review(in, clock, fault) ==
    IF fault = "insert" THEN [status |-> 500, review |-> review, coach |-> coach]
    ELSE LET stored == create_document(review, stamped(in, clock), NewReviewOid)
             tried == aggregate_try(coach, stored, in.coach_id, fault)
         IN  [status |-> after_aggregate(tried.raised), review |-> stored,
              coach |-> tried.coach]

(* GET /coaches/{coach_id}: the body of the try block *)
get_coach_try(s) ==
    IF ~IsValidOid(s) THEN [raised |-> "InvalidId"]
    ELSE LET doc == find_one(coach, ObjectId(s))
         IN  IF doc = <<>> THEN [raised |-> "HTTPException", status |-> 404]
             ELSE [raised |-> "", body |-> with_id(doc[1])]

(* ... and the handler: except Exception catches the HTTPException too *)
get_coach(s) ==
    LET r == get_coach_try(s)
    IN  IF r.raised # "" THEN [status |-> 400] ELSE [status |-> 200, body |-> r.body]

list_reviews(s) ==
    LET items == sort_desc(find_by_coach(review, s))
    IN  [i \in 1..Len(items) |-> with_id(items[i])]

list_bookings_for_coach(s) ==
    LET items == sort_desc(find_by_coach(booking, s))
    IN  [i \in 1..Len(items) |-> with_id(items[i])]

(* The booking as stored: created_at is the server's time unless the body  *)
(* carries one.                                                            *)
booking_document(b, clock) ==
    [b EXCEPT !.created_at = IF b.created_at = None THEN clock ELSE b.created_at]

(* As booking_error, the parent's bound off by one: athlete_age > 18 *)
booking_error_strict(b) ==
    IF b.user_type = "adult"
    THEN IF b.athlete_age # None /\ b.athlete_age < AdultAge
         THEN "Adults must be 18+" ELSE ""
    ELSE IF b.athlete_age = None \/ b.athlete_age > AdultAge
         THEN "Provide athlete_age for parent bookings and must be < 18" ELSE ""

(* The adult/parent check of create_booking: the detail of the 400, or "" *)
booking_error(b) ==
    IF b.user_type = "adult"
    THEN IF b.athlete_age # None /\ b.athlete_age < AdultAge
         THEN "Adults must be 18+" ELSE ""
    ELSE IF b.athlete_age = None \/ b.athlete_age >= AdultAge
         THEN "Provide athlete_age for parent bookings and must be < 18" ELSE ""

(* GET /test.  c is what the handler meets: whether the module-level db   *)
(* is None, whether DATABASE_URL is set, what db.name does, what           *)
(* db.list_collection_names() does, how many names it returns and how long *)
(* the exception's text is.  The body of the outer try block: the          *)
(* exception it ends with and the response dict as it then stands.         *)
test_database_try(c) ==
    LET response == [backend |-> "Running", database |-> "Not Available",
                     database_url |-> "None", database_name |-> "None",
                     connection_status |-> "Not Connected", collections |-> <<>>,
                     detail |-> 0]
        available == [response EXCEPT !.database = "Available",
                        !.database_url = IF c.url THEN "Set" ELSE "Not Set"]
        connected == [available EXCEPT
                        !.database_name = IF c.name = "value" THEN "name" ELSE "Connected",
                        !.connection_status = "Connected"]
        collections == [i \in 1..c.listed |-> i]
        shown == IF Len(collections) < CollectionsShown
                 THEN Len(collections) ELSE CollectionsShown
        chars == IF c.chars < ErrorChars THEN c.chars ELSE ErrorChars
    IN  IF c.db = "None"
        THEN [raised |-> "",
              response |-> [response EXCEPT !.database = "Available but not initialized"]]
        ELSE IF c.name = "raises"
        THEN [raised |-> "Exception", response |-> available]
        ELSE IF c.listing = "raises"
        THEN [raised |-> "",
              response |-> [connected EXCEPT !.database = "Connected but Error",
                                             !.detail = chars]]
        ELSE [raised |-> "",
              response |-> [connected EXCEPT !.collections = SubSeq(collections, 1, shown),
                                             !.database = "Connected & Working"]]

(* As test_database, without the outer try: the exception leaves the      *)
(* handler.                                                                *)
test_database_unguarded(c) ==
    LET tried == test_database_try(c)
    IN  IF tried.raised # ""
        THEN [status |-> 500, body |-> tried.response]
        ELSE [status |-> 200, body |-> tried.response]

(* ... and the handler: the outer except folds the exception into the     *)
(* response.                                                               *)
test_database(c) ==
    LET tried == test_database_try(c)
        chars == IF c.chars < ErrorChars THEN c.chars ELSE ErrorChars
    IN  IF tried.raised # ""
        THEN [status |-> 200,
              body |-> [tried.response EXCEPT !.database = "Error", !.detail = chars]]
        ELSE [status |-> 200, body |-> tried.response]

----------------------------------------------------------------------------
(* Actions: one request, handled from start to end *)

Init ==
    /\ coach = <<>>
    /\ review = <<>>
    /\ booking = <<>>
    /\ inflight = {}
    /\ posted = <<>>
    /\ resp = [op |-> "none"]

CreateCoach ==
    \E in \in CoachInputs :
        /\ Len(coach) < MaxCoaches
        /\ coach' = create_document(coach, in, NewCoachOid)
        /\ resp' = [op |-> "create_coach", status |-> 200, input |-> in,
                    id |-> Str(NewCoachOid)]
        /\ UNCHANGED <<review, booking, inflight, posted>>

GetCoach ==
    \E s \in IdInputs :
        /\ resp' = [op |-> "get_coach", arg |-> s] @@ get_coach(s)
        /\ UNCHANGED <<coach, review, booking, inflight, posted>>

(* POST /reviews with the body drawn from inputs, the server's clock from  *)
(* clocks and the store's condition from faults.                           *)
CreateReviewOf(inputs, clocks, faults, cap) ==
    \E in \in inputs, clock \in clocks, fault \in faults :
        /\ Len(review) < cap
        /\ LET out == create_review(in, clock, fault)
           IN  /\ review' = out.review
               /\ coach' = out.coach
               /\ posted' = IF out.status = 200
                            THEN Append(posted, [coach_id |-> in.coach_id,
                                                 rating |-> in.rating])
                            ELSE posted
               /\ resp' = IF out.status = 200
                          THEN [op |-> "create_review", status |-> 200,
                                id |-> Str(NewReviewOid)]
                          ELSE [op |-> "create_review", status |-> out.status]
        /\ UNCHANGED <<booking, inflight>>

CreateReview == CreateReviewOf(ReviewInputs(IdInputs, {None}), {0}, {""}, MaxReviews)

Next == CreateCoach \/ GetCoach \/ CreateReview

Spec == Init /\ [][Next]_vars

----------------------------------------------------------------------------
(* The two ledgers and their list endpoints.  coach_id is a reference the  *)
(* store does not enforce: the ledgers are exercised with the two          *)
(* spellings of one well-formed id, and with created_at given by the       *)
(* client or left to the server.                                           *)

LedgerIds == {Str(AbsentOid), <<"upper", AbsentOid>>}

LedgerTimes == {None} \cup Times

(* POST /bookings with the body drawn from inputs and the server's clock   *)
(* from clocks.                                                            *)
CreateBookingOf(inputs, clocks, cap) ==
    \E b \in inputs, clock \in clocks :
        /\ Len(booking) < cap
        /\ IF booking_error(b) # ""
           THEN /\ resp' = [op |-> "create_booking", status |-> 400,
                            user_type |-> b.user_type, athlete_age |-> b.athlete_age,
                            detail |-> booking_error(b)]
                /\ UNCHANGED booking
           ELSE /\ booking' = create_document(booking, booking_document(b, clock),
                                              NewBookingOid)
                /\ resp' = [op |-> "create_booking", status |-> 200,
                            user_type |-> b.user_type, athlete_age |-> b.athlete_age,
                            id |-> Str(NewBookingOid)]
        /\ UNCHANGED <<coach, review, inflight, posted>>

CreateBooking ==
    CreateBookingOf(BookingInputs(LedgerIds, LedgerTimes), Times,
                    MaxLedger - Len(review))

CreateLedgerReview ==
    CreateReviewOf(ReviewInputs(LedgerIds, LedgerTimes), Times, {""},
                   MaxLedger - Len(booking))

ListReviews ==
    \E s \in LedgerIds :
        /\ resp' = [op |-> "list_reviews", arg |-> s, items |-> list_reviews(s)]
        /\ UNCHANGED <<coach, review, booking, inflight, posted>>

ListBookings ==
    \E s \in LedgerIds :
        /\ resp' = [op |-> "list_bookings", arg |-> s,
                    items |-> list_bookings_for_coach(s)]
        /\ UNCHANGED <<coach, review, booking, inflight, posted>>

(* Every handler that writes to the store *)
CreateStoreReview ==
    CreateReviewOf(ReviewInputs(IdInputs, {None}), {0}, {""}, MaxPosted)

CreateStoreBooking ==
    CreateBookingOf(BookingInputs({Str(AbsentOid)}, {None}), {0}, MaxBookings)

StoreNext == CreateCoach \/ CreateStoreReview \/ CreateStoreBooking

StoreSpec == Init /\ [][StoreNext]_vars

LedgerNext == CreateBooking \/ CreateLedgerReview \/ ListReviews \/ ListBookings

LedgerSpec == Init /\ [][LedgerNext]_vars

----------------------------------------------------------------------------
(* A store that can fail: any store call of create_review may raise, and   *)
(* GET /test meets every condition of the store handle.  GET /test reads   *)
(* no collection, so it is explored on its own.                            *)

StoreConditions ==
    [db : {"None", "handle"}, url : BOOLEAN, name : {"value", "absent", "raises"},
     listing : {"ok", "raises"},
     listed : {0, CollectionsShown, CollectionsShown + MaxExtra},
     chars : {ErrorChars - 1, ErrorChars + MaxExtra}]

CreateFaultyReview ==
    CreateReviewOf(ReviewInputs(IdInputs, {None}), {0}, StoreFaults, MaxPosted)

TestDatabase ==
    \E c \in StoreConditions :
        /\ resp' = [op |-> "test_database", met |-> c] @@ test_database(c)
        /\ UNCHANGED <<coach, review, booking, inflight, posted>>

FaultNext == CreateCoach \/ CreateFaultyReview

FaultSpec == Init /\ [][FaultNext]_vars

DiagNext == TestDatabase

DiagSpec == Init /\ [][DiagNext]_vars

----------------------------------------------------------------------------
(* Concurrent requests: FastAPI runs each def handler on a worker thread,  *)
(* so the three store calls of one create_review interleave with those of  *)
(* another.  A request in flight is [rid, in, pc, found]: the id of the    *)
(* review it inserted, its body, the store call it makes next and the      *)
(* reviews its find returned.                                              *)

ConcIds == {Str(coach[i]._id) : i \in 1..Len(coach)} \cup {Junk}

(* review_id = create_document("review", data) *)
InsertReview ==
    \E in \in ReviewInputs(ConcIds, {None}) :
        /\ Len(review) < MaxReviews
        /\ Cardinality(inflight) < MaxInflight
        /\ review' = create_document(review, stamped(in, 0), NewReviewOid)
        /\ inflight' = inflight \cup
                {[rid |-> NewReviewOid, in |-> in, pc |-> "find", found |-> <<>>]}
        /\ UNCHANGED <<coach, booking, posted, resp>>

Respond(p) ==
    /\ inflight' = inflight \ {p}
    /\ posted' = Append(posted, [coach_id |-> p.in.coach_id, rating |-> p.in.rating])
    /\ resp' = [op |-> "create_review", status |-> 200, id |-> Str(p.rid)]

(* coach_oid = ObjectId(review.coach_id); reviews = list(db["review"].find(...)); *)
(* an InvalidId, or an empty list, ends the request with its id            *)
FindReviews ==
    \E p \in inflight :
        /\ p.pc = "find"
        /\ LET found == find_by_coach(review, p.in.coach_id)
           IN  IF IsValidOid(p.in.coach_id) /\ found # <<>>
               THEN /\ inflight' = (inflight \ {p})
                                      \cup {[p EXCEPT !.pc = "update", !.found = found]}
                    /\ UNCHANGED <<posted, resp>>
               ELSE Respond(p)
        /\ UNCHANGED <<coach, review, booking>>

(* db["coach"].update_one(...); return {"id": review_id} *)
UpdateCoach ==
    \E p \in inflight :
        /\ p.pc = "update"
        /\ coach' = update_one(coach, ObjectId(p.in.coach_id), aggregates(p.found))
        /\ Respond(p)
        /\ UNCHANGED <<review, booking>>

ConcNext == CreateCoach \/ InsertReview \/ FindReviews \/ UpdateCoach

ConcSpec == Init /\ [][ConcNext]_vars

----------------------------------------------------------------------------
(* What the claims speak of, stated apart from the handlers' code *)

Abs(x) == IF x < 0 THEN 0 - x ELSE x

RECURSIVE Total(_)
Total(rs) == IF rs = <<>> THEN 0 ELSE Total(SubSeq(rs, 1, Len(rs) - 1)) + rs[Len(rs)].rating

(* h hundredths is round(mean(rs), 2): the nearest multiple of 0.01 to the *)
(* mean, the even one of two equally near.                                 *)
MeanIs(h, rs) ==
    LET gap == Abs(100 * Total(rs) - h * Len(rs))
    IN  2 * gap < Len(rs) \/ (2 * gap = Len(rs) /\ h % 2 = 0)

(* The reviews / requests that reference the id string cid *)
Referencing(docs, cid) == SelectSeq(docs, LAMBDA d : d.coach_id = cid)

AgeRule(user_type, athlete_age) ==
    \/ user_type = "adult" /\ (athlete_age = None \/ athlete_age >= 18)
    \/ user_type = "parent" /\ athlete_age # None /\ athlete_age < 18

C2_NotFoundIs404 ==
    resp.op = "get_coach" =>
        /\ ~IsValidOid(resp.arg) => resp.status = 400
        /\ (IsValidOid(resp.arg)
            /\ \A i \in 1..Len(coach) : coach[i]._id # ObjectId(resp.arg))
                => resp.status = 404

(* Every stored booking satisfies the age rule, and the answer to a        *)
(* create_booking is 200 with the id of the booking just stored exactly    *)
(* when the request satisfies it, 400 otherwise.                           *)
C3_State ==
    /\ \A i \in 1..Len(booking) : AgeRule(booking[i].user_type, booking[i].athlete_age)
    /\ resp.op = "create_booking" =>
        /\ resp.status \in {200, 400}
        /\ resp.status = 200 <=> AgeRule(resp.user_type, resp.athlete_age)
        /\ resp.status = 200 =>
            /\ booking # <<>>
            /\ LET b == booking[Len(booking)]
               IN  /\ Str(b._id) = resp.id
                   /\ b.user_type = resp.user_type
                   /\ b.athlete_age = resp.athlete_age
                   /\ \A j \in 1..(Len(booking) - 1) : booking[j]._id # b._id

(* A refused create_booking leaves the bookings as they were, an accepted  *)
(* one appends one.                                                        *)
C3_Step ==
    (resp'.op = "create_booking" /\ resp' # resp) =>
        IF resp'.status = 400
        THEN booking' = booking
        ELSE /\ Len(booking') = Len(booking) + 1
             /\ SubSeq(booking', 1, Len(booking)) = booking

(* C3: create_booking stores the booking and returns a new id exactly when *)
(* the age rule holds, and otherwise answers 400 and leaves the bookings   *)
(* as they were; every stored booking satisfies the age rule.              *)
C3_BookingAgeRule == []C3_State /\ [][C3_Step]_vars

(* A parent's booking for an 18-year-old, refused while a booking is stored *)
C3_Witness ==
    /\ resp.op = "create_booking"
    /\ resp.status = 400
    /\ resp.user_type = "parent"
    /\ resp.athlete_age = 18
    /\ booking # <<>>

(* The id a create_review returns is that of the review stored last, the  *)
(* one the request carried.                                                *)
C4_State ==
    (resp.op = "create_review" /\ resp.status = 200) =>
        /\ review # <<>>
        /\ Str(review[Len(review)]._id) = resp.id
        /\ review[Len(review)].coach_id = posted[Len(posted)].coach_id
        /\ review[Len(review)].rating = posted[Len(posted)].rating

(* A step that inserts a review answers 200 with its id; a create_review  *)
(* answered with an error inserted nothing.                                *)
C4_Step ==
    /\ Len(review') > Len(review) =>
        /\ Len(review') = Len(review) + 1
        /\ resp'.op = "create_review"
        /\ resp'.status = 200
        /\ resp'.id = Str(review'[Len(review')]._id)
    /\ (resp'.op = "create_review" /\ resp'.status # 200) => review' = review

(* C4: whenever the review insert succeeds, create_review stores the       *)
(* review and returns its id, whatever becomes of the aggregate update: a  *)
(* malformed or unknown coach_id, a failing read, a failing update.  An    *)
(* error reaches the client only when nothing was inserted.                *)
C4_ReviewSucceeds == []C4_State /\ [][C4_Step]_vars

(* A review of an existing coach answered with its id although the         *)
(* aggregate update was lost to a store failure: the coach still counts    *)
(* no review.                                                              *)
C4_Witness ==
    /\ resp.op = "create_review"
    /\ resp.status = 200
    /\ \E i \in 1..Len(coach) :
            /\ review[Len(review)].coach_id = Str(coach[i]._id)
            /\ coach[i].review_count = 0

(* items are exactly the stored documents whose coach_id is arg, each      *)
(* once, "_id" renamed to "id", no created_at below the one after it.      *)
Listed(items, stored, arg) ==
    /\ Len(items) = Cardinality({j \in 1..Len(stored) : stored[j].coach_id = arg})
    /\ \A j \in 1..Len(stored) :
            stored[j].coach_id = arg =>
                \E i \in 1..Len(items) :
                    /\ items[i].id = Str(stored[j]._id)
                    /\ \A f \in DOMAIN stored[j] \ {"_id"} : items[i][f] = stored[j][f]
    /\ \A i \in 1..Len(items) : items[i].coach_id = arg
    /\ \A i \in 1..(Len(items) - 1) : items[i].created_at >= items[i + 1].created_at

(* C5: list_reviews and list_bookings_for_coach return exactly the stored  *)
(* documents whose coach_id is the requested string, ordered by created_at *)
(* descending.                                                             *)
C5_ListsNewestFirst ==
    /\ resp.op = "list_reviews" => Listed(resp.items, review, resp.arg)
    /\ resp.op = "list_bookings" => Listed(resp.items, booking, resp.arg)

(* Two bookings of one coach_id listed in the reverse of the order they    *)
(* were stored in, a third one of another coach_id left out.               *)
C5_Witness ==
    /\ resp.op = "list_bookings"
    /\ Len(resp.items) = 2
    /\ Len(booking) = 3
    /\ resp.items[1].created_at > resp.items[2].created_at
    /\ ObjectId(resp.items[1].id) > ObjectId(resp.items[2].id)

(* C6: get_coach(X), called right after create_coach returned X, succeeds  *)
(* with a document whose "id" is X, whose fields are the input's and which *)
(* has no "_id".                                                           *)
C6_CreateGetRoundTrip ==
    resp.op = "create_coach" =>
        LET got == get_coach(resp.id)
        IN  /\ got.status = 200
            /\ got.body.id = resp.id
            /\ "_id" \notin DOMAIN got.body
            /\ \A f \in DOMAIN resp.input :
                    f \in DOMAIN got.body /\ got.body[f] = resp.input[f]

(* The second coach created, the first one already reviewed *)
C6_Witness ==
    /\ resp.op = "create_coach"
    /\ Len(coach) = 2
    /\ coach[1].review_count > 0
    /\ get_coach(resp.id).status = 200

(* C7: GET /test never fails: whatever the store handle does, it answers   *)
(* with the diagnostics object, whose collections list has at most 10      *)
(* entries.                                                                *)
C7_TestNeverFails ==
    resp.op = "test_database" =>
        /\ resp.status = 200
        /\ DOMAIN resp.body = {"backend", "database", "database_url", "database_name",
                               "connection_status", "collections", "detail"}
        /\ Len(resp.body.collections) <= 10
        /\ resp.met.db = "None" => resp.body.collections = <<>>

(* A working store with more than 10 collections: 10 are shown *)
C7_Witness ==
    /\ resp.op = "test_database"
    /\ resp.met.db = "handle"
    /\ resp.met.name = "value"
    /\ resp.met.listing = "ok"
    /\ resp.met.listed > 10
    /\ Len(resp.body.collections) = 10
    /\ resp.body.database = "Connected & Working"

(* C8, as claimed: in every reachable state of the store, every coach with *)
(* at least one review referencing its id has average_rating =             *)
(* round(mean of those reviews' ratings, 2) and review_count = their       *)
(* number.                                                                 *)
C8_AggregatesAlways ==
    \A i \in 1..Len(coach) :
        LET rs == Referencing(review, Str(coach[i]._id))
        IN  rs # <<>> =>
                /\ coach[i].review_count = Len(rs)
                /\ MeanIs(coach[i].average_rating, rs)

(* A request about to update holds the reviews of its coach_id as they     *)
(* were stored when it read them, its own among them.                      *)
C8_Snapshot ==
    \A p \in inflight :
        p.pc = "update" =>
            LET now == Referencing(review, p.in.coach_id)
            IN  /\ p.found # <<>>
                /\ Len(p.found) <= Len(now)
                /\ p.found = SubSeq(now, 1, Len(p.found))
                /\ \E k \in 1..Len(p.found) : p.found[k]._id = p.rid

(* The update sets the coach's average_rating and review_count to the     *)
(* rounded mean and the number of the reviews the request read.            *)
C8_Write ==
    \A p \in inflight :
        (p.pc = "update" /\ p \notin inflight') =>
            \A i \in 1..Len(coach') :
                coach'[i]._id = ObjectId(p.in.coach_id) =>
                    /\ coach'[i].review_count = Len(p.found)
                    /\ MeanIs(coach'[i].average_rating, p.found)

(* C8, amended: the aggregates are right when they are written: each       *)
(* update of a coach by create_review sets average_rating and review_count *)
(* to the rounded mean and the number of the reviews with the request's    *)
(* coach_id that were stored when the request read them.                   *)
C8_AggregatesWhenWritten == []C8_Snapshot /\ [][C8_Write]_vars

(* Three reviews of a coach, all counted, their mean 5/3 rounded up, and   *)
(* no request in flight.                                                   *)
C8_Witness ==
    /\ inflight = {}
    /\ \E i \in 1..Len(coach) :
            /\ Len(Referencing(review, Str(coach[i]._id))) = 3
            /\ coach[i].review_count = 3
            /\ coach[i].average_rating = 167

(* A step deletes no document, changes no review and no booking, changes  *)
(* no field of a coach but average_rating and review_count, and creates no *)
(* coach when it creates a review.                                         *)
Kept ==
    /\ Len(coach') >= Len(coach)
    /\ Len(review') >= Len(review)
    /\ Len(booking') >= Len(booking)
    /\ \A i \in 1..Len(review) : review'[i] = review[i]
    /\ \A i \in 1..Len(booking) : booking'[i] = booking[i]
    /\ \A i \in 1..Len(coach) :
        /\ DOMAIN coach'[i] = DOMAIN coach[i]
        /\ \A f \in DOMAIN coach[i] \ {"average_rating", "review_count"} :
                coach'[i][f] = coach[i][f]
    /\ Len(review') > Len(review) => Len(coach') = Len(coach)

(* The coaches a step changes *)
Changed == {i \in 1..Len(coach) : coach'[i] # coach[i]}

(* C9, as claimed: no document is ever deleted, no review or booking       *)
(* changes once stored, and of a coach only average_rating and             *)
(* review_count change, only in a create_review whose coach_id equals that *)
(* coach's id; a create_review whose coach_id matches no coach creates no  *)
(* coach and changes none.                                                 *)
C9_FrameByEqualId ==
    [][/\ Kept
       /\ \A i \in Changed :
            /\ Len(review') = Len(review) + 1
            /\ review'[Len(review')].coach_id = Str(coach[i]._id)]_vars

(* C9, amended: as claimed, but the coach_id of that create_review is the  *)
(* coach's id up to the case of its hex digits, which is all that          *)
(* ObjectId(coach_id) looks at.                                            *)
C9_FrameByParsedId ==
    [][/\ Kept
       /\ \A i \in Changed :
            /\ Len(review') = Len(review) + 1
            /\ IsValidOid(review'[Len(review')].coach_id)
            /\ ObjectId(review'[Len(review')].coach_id) = coach[i]._id]_vars

(* A coach whose aggregates were written although no stored review has its *)
(* id as coach_id, with a booking in the store.                            *)
C9_Witness ==
    /\ booking # <<>>
    /\ Len(coach) = 2
    /\ \E i \in 1..Len(coach) :
            /\ coach[i].review_count > 0
            /\ Referencing(review, Str(coach[i]._id)) = <<>>

(* C10: once all concurrent create_review requests have completed, each    *)
(* reviewed coach's review_count is the number of reviews stored for it    *)
(* and its average_rating their rounded mean.                              *)
C10_AggregatesOnceComplete ==
    inflight = {} =>
        \A i \in 1..Len(coach) :
            LET rs == Referencing(review, Str(coach[i]._id))
            IN  rs # <<>> =>
                    /\ coach[i].review_count = Len(rs)
                    /\ MeanIs(coach[i].average_rating, rs)

====
